---------------------------- MODULE Spec2Model ----------------------------
(***************************************************************************)
(* A model of foxtail (src/foxtail/__main__.py): the summary annotation    *)
(* cache (InputCache), the interactive annotator (input_summaries,         *)
(* multiline_input), the renderers (the format_results family) and the    *)
(* command line driver (foxtail, main).                                    *)
(*                                                                         *)
(* Text is a sequence of one-character strings, so that the conversions    *)
(* the program performs on text (interpolation into SQL, join/strip,       *)
(* escaping, lexicographic comparison) are computed, not assumed.          *)
(* Time is counted in whole days for the cache (timeAdded, now) and in     *)
(* abstract ticks for bookmark timestamps; DayLen ticks make one calendar  *)
(* day.                                                                    *)
(***************************************************************************)
EXTENDS Integers, Sequences, FiniteSets, TLC

VARIABLES
    \* ---- durable state: the cache's backing file ~/.cache/foxtail/input.sqlite3
    cacheFile,      \* "absent" | "empty" (file exists, no table) | "ready"
    table,          \* rows of table input(url, summary, timeAdded), in rowid order
    \* ---- the wall clock
    now,
    \* ---- the running process
    pc,             \* position of the process (see each specification)
    pending,        \* Some(the UPDATE executed but not yet committed) or None
    ret,            \* what the last InputCache call returned or raised
    \* ---- history (ghost) variables of the cache
    lastSet,        \* url -> Some(summary of the most recent completed set) or None
    swept,          \* how many rows InputCache() deleted when it ran
    openedAt,       \* the clock when InputCache() ran
    \* ---- main / foxtail
    args,           \* the parsed command line
    outFiles,       \* output path -> Some(file content) or None
    preFiles,       \* outFiles as they were when main started (ghost)
    store,          \* the history store: Some(its bookmark rows) or None
    ioLog,          \* accesses to the history store made so far
    printed,        \* what was printed on stdout
    exitCode,       \* main's return value
    errKind,        \* the exception main caught, or "none"
    results,        \* list[Result] flowing through foxtail
    lines,          \* the formatter's output
    \* ---- input_summaries / multiline_input
    idx,            \* 1-based position of the record being prompted
    inp,            \* lines read so far by the running multiline_input
    n_lines,        \* multiline_input's counter of empty lines
    prompts,        \* per completed prompt, the lines it read (ghost)
    entryResults    \* results as passed to input_summaries (ghost)

cacheVars == <<cacheFile, table, now, pending, ret, lastSet, swept, openedAt>>
mainVars  == <<args, outFiles, preFiles, store, ioLog, printed, exitCode, errKind, results, lines>>
annotVars == <<idx, inp, n_lines, prompts, entryResults>>
vars == <<cacheFile, table, now, pc, pending, ret, lastSet, swept, openedAt,
          args, outFiles, preFiles, store, ioLog, printed, exitCode, errKind,
          results, lines, idx, inp, n_lines, prompts, entryResults>>

-----------------------------------------------------------------------------
(* Bounds of the model *)

\* the clock runs from Retention to Retention + MaxTick; rows found on disk
\* carry a timeAdded in 0..MaxTick
MaxTick == 2
\* rows in a backing store found on disk
MaxRows == 2
\* lines one multiline_input call may read before the input stream ends
MaxLines == 4
\* records handed to input_summaries
MaxRecords == 2
\* records handed to format_results_markdown
MaxRender == 3
\* bookmark timestamps range over 0..MaxTime
MaxTime == 3
\* ticks per calendar day
DayLen == 2

Absent == "absent"
NoVal == "none"

\* an optional value: <<>> when missing, <<v>> when present
None == <<>>
Some(v) == <<v>>

-----------------------------------------------------------------------------
(* Text *)

NL == "\n"
QUOTE == "'"
BSLASH == "\\"

\* str.join("\n", parts)
RECURSIVE Join(_)
Join(parts) ==
    IF Len(parts) = 0 THEN <<>>
    ELSE IF Len(parts) = 1 THEN parts[1]
    ELSE parts[1] \o <<NL>> \o Join(Tail(parts))

IsSpace(c) == c \in {NL, " "}

RECURSIVE LStrip(_)
LStrip(s) == IF Len(s) > 0 /\ IsSpace(s[1]) THEN LStrip(Tail(s)) ELSE s

RECURSIVE RStrip(_)
RStrip(s) ==
    IF Len(s) > 0 /\ IsSpace(s[Len(s)]) THEN RStrip(SubSeq(s, 1, Len(s) - 1)) ELSE s

\* str.strip()
Strip(s) == RStrip(LStrip(s))

\* str.replace(c, rep) for a one-character c
RECURSIVE Replace(_, _, _)
Replace(s, c, rep) ==
    IF Len(s) = 0 THEN <<>>
    ELSE (IF s[1] = c THEN rep ELSE <<s[1]>>) \o Replace(Tail(s), c, rep)

-----------------------------------------------------------------------------
(* SQL text built by interpolation (f"... '{value}' ...") and read by sqlite *)

\* length of the run of quote characters at the head of s
RECURSIVE QuoteRun(_)
QuoteRun(s) == IF Len(s) > 0 /\ s[1] = QUOTE THEN 1 + QuoteRun(Tail(s)) ELSE 0

\* sqlite's reading of the literal '<s>' in the statement: a doubled quote is
\* one quote character of the value; a single quote ends the literal early
\* and what follows it is not SQL, so the statement is rejected.
RECURSIVE SqlLiteral(_)
SqlLiteral(s) ==
    IF Len(s) = 0 THEN [ok |-> TRUE, val |-> <<>>]
    ELSE IF s[1] = QUOTE THEN
        IF QuoteRun(s) % 2 = 1 THEN [ok |-> FALSE, val |-> <<>>]
        ELSE LET rest == SqlLiteral(SubSeq(s, QuoteRun(s) + 1, Len(s)))
             IN  [ok |-> rest.ok,
                  val |-> [i \in 1..(QuoteRun(s) \div 2) |-> QUOTE] \o rest.val]
    ELSE LET rest == SqlLiteral(Tail(s))
         IN  [ok |-> rest.ok, val |-> <<s[1]>> \o rest.val]

-----------------------------------------------------------------------------
(* InputCache *)

\* timedelta(days=30)
Retention == 30

Row(u, s, t) == [url |-> u, summary |-> s, timeAdded |-> t]

Raise(kind) == [err |-> kind, val |-> NoVal]
Return(v) == [err |-> "none", val |-> v]

\* DELETE FROM input WHERE timeAdded < (cur_time - delta).timestamp()
SweepTooMuch(tbl, t) == SelectSeq(tbl, LAMBDA r : ~(r.timeAdded <= t - Retention))
Sweep(tbl, t) == SelectSeq(tbl, LAMBDA r : ~(r.timeAdded < t - Retention))

\* rows SELECTed by WHERE url = '<u>'
Matching(tbl, u) == SelectSeq(tbl, LAMBDA r : r.url = SqlLiteral(u).val)

\* InputCache.__contains__ on a store that has the table
InputCache_contains(tbl, u) ==
    IF ~SqlLiteral(u).ok THEN Raise("OperationalError")
    ELSE Return(Len(Matching(tbl, u)) > 0)

\* InputCache.__getitem__
InputCache_getitem(tbl, u) ==
    IF ~SqlLiteral(u).ok THEN Raise("OperationalError")
    ELSE IF Len(Matching(tbl, u)) = 0 THEN Raise("KeyError")
    ELSE Return(Matching(tbl, u)[1].summary)

\* InputCache.get
InputCache_get(tbl, u, fallback) ==
    IF InputCache_contains(tbl, u).err # "none" THEN InputCache_contains(tbl, u)
    ELSE IF ~InputCache_contains(tbl, u).val THEN Return(fallback)
    ELSE InputCache_getitem(tbl, u)

\* InputCache.__setitem__: the table the UPDATE leaves (val), or the error
InputCache_setitem(tbl, u, s, t) ==
    IF ~SqlLiteral(s).ok \/ ~SqlLiteral(u).ok THEN Raise("OperationalError")
    ELSE Return([i \in 1..Len(tbl) |->
                    IF tbl[i].url = SqlLiteral(u).val
                    THEN Row(tbl[i].url, SqlLiteral(s).val, t)
                    ELSE tbl[i]])

\* InputCache.__init__ run to completion: the file and table it leaves, or
\* the error of the DELETE on a file that has no table
InputCache_init(file, tbl, t) ==
    IF file = Absent THEN Return([file |-> "ready", table |-> <<>>])
    ELSE IF file = "empty" THEN Raise("OperationalError")
    ELSE Return([file |-> "ready", table |-> Sweep(tbl, t)])

-----------------------------------------------------------------------------
(* Values the model draws its inputs from *)

\* URLs: two plain ones and one that holds an apostrophe
UrlU == <<"u">>
UrlV == <<"v">>
UrlQ == <<"o", QUOTE, "r">>
Urls == {UrlU, UrlV, UrlQ}

\* summaries passed to set
Texts == {<<"a">>, <<"b">>, <<QUOTE>>, <<QUOTE, QUOTE>>}

\* rows a backing store found on disk may hold
StoredRows == {Row(u, <<"a">>, t) : u \in {UrlU, UrlV}, t \in 0..MaxTick}

RECURSIVE SeqsUpTo(_, _)
SeqsUpTo(S, n) ==
    IF n = 0 THEN {<<>>}
    ELSE SeqsUpTo(S, n - 1) \cup
         {Append(q, x) : q \in {r \in SeqsUpTo(S, n - 1) : Len(r) = n - 1}, x \in S}

StoredTables == SeqsUpTo(StoredRows, MaxRows)

-----------------------------------------------------------------------------
(* The process as far as the cache specification does not use it *)

NoArgs == [version |-> FALSE, after |-> <<>>, before |-> <<>>, output |-> None,
           format |-> "markdown", interactive |-> FALSE, overwrite |-> FALSE]

MainAtRest ==
    /\ args = NoArgs
    /\ outFiles = <<>>
    /\ preFiles = <<>>
    /\ store = None
    /\ ioLog = {}
    /\ printed = <<>>
    /\ exitCode = 0
    /\ errKind = "none"
    /\ results = <<>>
    /\ lines = <<>>

AnnotAtRest ==
    /\ idx = 0
    /\ inp = <<>>
    /\ n_lines = 0
    /\ prompts = <<>>
    /\ entryResults = <<>>

CacheAtRest ==
    /\ pending = None
    /\ ret = Return(NoVal)
    /\ lastSet = [u \in Urls |-> None]
    /\ swept = 0
    /\ openedAt = 0

-----------------------------------------------------------------------------
(* SpecCache: processes that open the cache and call it, one after another, *)
(* each of which may be interrupted at any point.                           *)
(*   pc = "idle"        no process is running                               *)
(*        "creating"    __init__ connected (the file now exists) and has    *)
(*                      not yet committed CREATE TABLE                      *)
(*        "open"        __init__ returned                                   *)
(*        "committing"  __setitem__ executed its UPDATE and has not yet     *)
(*                      committed                                           *)
(*        "failed"      __init__ raised                                     *)

CacheInit ==
    /\ pc = "idle"
    /\ now = Retention
    /\ cacheFile \in {Absent, "ready"}
    /\ table \in (IF cacheFile = Absent THEN {<<>>} ELSE StoredTables)
    /\ CacheAtRest
    /\ MainAtRest
    /\ AnnotAtRest

\* __init__, lines 57-58: the file does not exist; sqlite3.connect creates it
CacheConnectNew ==
    /\ pc = "idle"
    /\ cacheFile = Absent
    /\ cacheFile' = "empty"
    /\ pc' = "creating"
    /\ UNCHANGED <<table, now, pending, ret, lastSet, swept, openedAt>>
    /\ UNCHANGED <<mainVars, annotVars>>

\* __init__, lines 59-61: CREATE TABLE is committed
CacheCreateTable ==
    /\ pc = "creating"
    /\ cacheFile' = "ready"
    /\ table' = <<>>
    /\ swept' = 0
    /\ openedAt' = now
    /\ pc' = "open"
    /\ UNCHANGED <<now, pending, ret, lastSet>>
    /\ UNCHANGED <<mainVars, annotVars>>

\* __init__, lines 62-70: the file exists; DELETE the old rows
CacheOpenExisting ==
    /\ pc = "idle"
    /\ cacheFile # Absent
    /\ LET r == InputCache_init(cacheFile, table, now)
       IN  IF r.err # "none"
           THEN /\ pc' = "failed"
                /\ ret' = r
                /\ UNCHANGED <<table, swept, openedAt>>
           ELSE /\ pc' = "open"
                /\ table' = r.val.table
                /\ swept' = Len(table) - Len(r.val.table)
                /\ openedAt' = now
                /\ UNCHANGED ret
    /\ UNCHANGED <<cacheFile, now, pending, lastSet>>
    /\ UNCHANGED <<mainVars, annotVars>>

\* url in cache
CacheContains ==
    /\ pc = "open"
    /\ \E u \in Urls : ret' = InputCache_contains(table, u)
    /\ UNCHANGED <<cacheFile, table, now, pc, pending, lastSet, swept, openedAt>>
    /\ UNCHANGED <<mainVars, annotVars>>

\* cache[url]
CacheGetItem ==
    /\ pc = "open"
    /\ \E u \in Urls : ret' = InputCache_getitem(table, u)
    /\ UNCHANGED <<cacheFile, table, now, pc, pending, lastSet, swept, openedAt>>
    /\ UNCHANGED <<mainVars, annotVars>>

\* cache[url] = summary, lines 96-104: the UPDATE is executed (or rejected)
CacheSetExecute ==
    /\ pc = "open"
    /\ \E u \in Urls, s \in Texts :
         LET r == InputCache_setitem(table, u, s, now)
         IN  IF r.err # "none"
             THEN /\ ret' = r
                  /\ UNCHANGED <<pc, pending>>
             ELSE /\ pending' = Some([table |-> r.val, url |-> u, summary |-> s])
                  /\ pc' = "committing"
                  /\ ret' = Return(NoVal)
    /\ UNCHANGED <<cacheFile, table, now, lastSet, swept, openedAt>>
    /\ UNCHANGED <<mainVars, annotVars>>

\* cache[url] = summary, line 105: con.commit()
CacheSetCommit ==
    /\ pc = "committing"
    /\ table' = pending[1].table
    /\ lastSet' = [lastSet EXCEPT ![pending[1].url] = Some(pending[1].summary)]
    /\ pending' = None
    /\ ret' = Return(NoVal)
    /\ pc' = "open"
    /\ UNCHANGED <<cacheFile, now, swept, openedAt>>
    /\ UNCHANGED <<mainVars, annotVars>>

\* the clock advances
Tick ==
    /\ now < Retention + MaxTick
    /\ now' = now + 1
    /\ UNCHANGED <<cacheFile, table, pc, pending, ret, lastSet, swept, openedAt>>
    /\ UNCHANGED <<mainVars, annotVars>>

\* the process ends: it exits, or it is interrupted where it stands. What was
\* not committed is rolled back by sqlite; the file stays as it is.
ProcessEnd ==
    /\ pc \in {"creating", "open", "committing", "failed"}
    /\ pc' = "idle"
    /\ pending' = None
    /\ ret' = Return(NoVal)
    /\ lastSet' = [u \in Urls |-> None]
    /\ swept' = 0
    /\ openedAt' = 0
    /\ UNCHANGED <<cacheFile, table, now>>
    /\ UNCHANGED <<mainVars, annotVars>>

CacheNext ==
    \/ CacheConnectNew
    \/ CacheCreateTable
    \/ CacheOpenExisting
    \/ CacheContains
    \/ CacheGetItem
    \/ CacheSetExecute
    \/ CacheSetCommit
    \/ Tick
    \/ ProcessEnd

SpecCache == CacheInit /\ [][CacheNext]_vars

-----------------------------------------------------------------------------
(* Claims about the cache *)

\* C1: after any sequence of set(url, summary) calls on an open cache,
\* contains(u) is true for every URL u that was set and get(u) returns the
\* summary of the most recent set for u, whether or not an entry for u
\* existed before.
C1_UpsertRoundTrip ==
    pc = "open" =>
        \A u \in Urls :
            lastSet[u] # None =>
                /\ InputCache_contains(table, u).err = "none"
                /\ InputCache_contains(table, u).val
                /\ InputCache_getitem(table, u).err = "none"
                /\ InputCache_getitem(table, u).val = lastSet[u][1]

\* number of positions of tbl that hold row r
Count(tbl, r) == Cardinality({i \in 1..Len(tbl) : tbl[i] = r})

\* C5: opening the cache on an existing store at time now removes every row
\* whose timeAdded is strictly older than now - 30 days and keeps every other
\* row as it was; and while the cache is usable no row older than that
\* (counted from the moment of the open) is in it.
C5_SweepOnOpen ==
    /\ [](pc \in {"open", "committing"} =>
            \A i \in 1..Len(table) : table[i].timeAdded >= openedAt - Retention)
    /\ [][(pc = "idle" /\ pc' = "open" /\ cacheFile = "ready") =>
            /\ \A i \in 1..Len(table') : table'[i].timeAdded >= now - Retention
            /\ \A i \in 1..Len(table') : Count(table, table'[i]) > 0
            /\ \A i \in 1..Len(table) :
                   table[i].timeAdded >= now - Retention =>
                       Count(table', table[i]) = Count(table, table[i])
            /\ cacheFile' = "ready"]_vars

\* C5 witness: an open that removed a row strictly older than the window and
\* kept a row written exactly 30 days before.
C5_Witness ==
    /\ pc = "open"
    /\ swept = 1
    /\ Len(table) = 1
    /\ table[1].timeAdded = openedAt - Retention

\* C10: whatever earlier processes did and wherever they were interrupted,
\* every later InputCache() completes without error.
C10_OpenAlwaysCompletes == pc # "failed"

-----------------------------------------------------------------------------
(* Result and the renderers *)

Result(u, ti, t, su) == [url |-> u, title |-> ti, time |-> t, summary |-> su]

\* Result.get_date: the calendar day the timestamp falls on. ISO dates sort
\* as the days they denote, so the day number stands for the date string.
get_date(r) == r.time \div DayLen

\* sorted(results, key=lambda x: x.time): stable
RECURSIVE InsertByTime(_, _)
InsertByTime(sorted, r) ==
    IF Len(sorted) = 0 THEN <<r>>
    ELSE IF sorted[Len(sorted)].time <= r.time THEN Append(sorted, r)
    ELSE Append(InsertByTime(SubSeq(sorted, 1, Len(sorted) - 1), r), sorted[Len(sorted)])

RECURSIVE SortByTime(_)
SortByTime(rs) ==
    IF Len(rs) = 0 THEN <<>>
    ELSE InsertByTime(SortByTime(SubSeq(rs, 1, Len(rs) - 1)), rs[Len(rs)])

\* sorted(keys): ascending, for a set of day numbers
RECURSIVE SortedDates(_)
SortedDates(S) ==
    IF S = {} THEN <<>>
    ELSE LET m == CHOOSE x \in S : \A y \in S : x <= y
         IN  <<m>> \o SortedDates(S \ {m})

\* itertools.groupby(results, key=get_date): runs of consecutive records with
\* the same date, as <<date, run>> pairs, in input order
RECURSIVE groupby(_)
groupby(rs) ==
    IF Len(rs) = 0 THEN <<>>
    ELSE LET rest == groupby(Tail(rs))
         IN  IF Len(rest) > 0 /\ rest[1][1] = get_date(rs[1])
             THEN <<<<rest[1][1], <<rs[1]>> \o rest[1][2]>>>> \o Tail(rest)
             ELSE <<<<get_date(rs[1]), <<rs[1]>>>>>> \o rest

\* the dict comprehension of lines 337-343: a later run of a date replaces an
\* earlier one
grouped_results(rs) ==
    LET runs == groupby(rs)
        keys == {runs[i][1] : i \in 1..Len(runs)}
        last(k) == CHOOSE i \in 1..Len(runs) :
                       /\ runs[i][1] = k
                       /\ \A j \in 1..Len(runs) : runs[j][1] = k => j <= i
    IN  [k \in keys |-> SortByTime(runs[last(k)][2])]

\* one output line
Line(kind, date, text) == [kind |-> kind, date |-> date, text |-> text]
Blank == Line("blank", 0, <<>>)

\* title.replace("]", "\]").replace("[", "\[")
title_escaped(ti) == Replace(Replace(ti, "]", <<BSLASH, "]">>), "[", <<BSLASH, "[">>)

\* lines 352-357: the lines of one record
MarkdownEntry(r) ==
    <<Line("link", 0, <<"[">> \o title_escaped(r.title) \o <<"]", "(">> \o r.url \o <<")">>),
      Blank>>
    \o (IF r.summary # <<>> THEN <<Line("text", 0, r.summary), Blank>> ELSE <<>>)

RECURSIVE MarkdownEntries(_)
MarkdownEntries(rs) ==
    IF Len(rs) = 0 THEN <<>> ELSE MarkdownEntry(rs[1]) \o MarkdownEntries(Tail(rs))

RECURSIVE MarkdownGroups(_, _)
MarkdownGroups(groups, dates) ==
    IF Len(dates) = 0 THEN <<>>
    ELSE <<Line("heading", dates[1], <<>>), Blank>>
         \o MarkdownEntries(SortByTime(groups[dates[1]]))
         \o MarkdownGroups(groups, Tail(dates))

format_results_markdown(rs) ==
    MarkdownGroups(grouped_results(rs), SortedDates(DOMAIN grouped_results(rs)))

\* summary.replace("\n", "\\n")
SummaryEscaped(su) == Replace(su, NL, <<BSLASH, "n">>)

\* sep.join([date, title, url, summary]): the date is kept as the line's date
Delimited(r, sep) ==
    Line("row", get_date(r), <<sep>> \o r.title \o <<sep>> \o r.url \o <<sep>> \o SummaryEscaped(r.summary))

format_results_table(rs) ==
    [i \in 1..Len(rs) |-> Delimited(SortByTime(rs)[i], "\t")]

format_results_csv(rs) ==
    [i \in 1..Len(rs) |-> Delimited(SortByTime(rs)[i], ",")]

\* json.dumps of a string: backslashes are escaped, the value is quoted
JsonString(t) == <<"\"">> \o Replace(t, BSLASH, <<BSLASH, BSLASH>>) \o <<"\"">>

JsonObject(r, isLast) ==
    << Line("json", 0, <<"{">>),
       Line("json_date", get_date(r), <<",">>),
       Line("json_title", 0, JsonString(r.title) \o <<",">>),
       Line("json_url", 0, JsonString(r.url) \o <<",">>),
       Line("json_summary", 0, JsonString(SummaryEscaped(r.summary))),
       Line("json", 0, IF isLast THEN <<"}">> ELSE <<"}", ",">>) >>

RECURSIVE JsonObjects(_)
JsonObjects(rs) ==
    IF Len(rs) = 0 THEN <<>>
    ELSE JsonObject(rs[1], Len(rs) = 1) \o JsonObjects(Tail(rs))

\* json.dumps(output, indent=2).split("\n")
format_results_json(rs) ==
    IF Len(rs) = 0
    THEN <<Line("json", 0, <<"{">>), Line("json_results", 0, <<"[", "]">>), Line("json", 0, <<"}">>)>>
    ELSE <<Line("json", 0, <<"{">>), Line("json_results", 0, <<"[">>)>>
         \o JsonObjects(SortByTime(rs))
         \o <<Line("json", 0, <<"]">>), Line("json", 0, <<"}">>)>>

Formats == {"markdown", "table", "json", "csv"}

\* foxtail, lines 215-221
formatter(format, rs) ==
    CASE format = "markdown" -> format_results_markdown(rs)
      [] format = "table"    -> format_results_table(rs)
      [] format = "json"     -> format_results_json(rs)
      [] format = "csv"      -> format_results_csv(rs)

-----------------------------------------------------------------------------
(* SpecRender: a formatter applied to any list of records *)

RenderRecords ==
    {Result(u, <<"t">>, t, su) : u \in {UrlU, UrlV}, t \in 0..MaxTime, su \in {<<>>, <<"a">>}}

RenderInit ==
    /\ pc = "render"
    /\ now = Retention
    /\ cacheFile = Absent
    /\ table = <<>>
    /\ CacheAtRest
    /\ args = NoArgs
    /\ outFiles = <<>>
    /\ preFiles = <<>>
    /\ store = None
    /\ ioLog = {}
    /\ printed = <<>>
    /\ exitCode = 0
    /\ errKind = "none"
    /\ results \in SeqsUpTo(RenderRecords, MaxRender)
    /\ lines = <<>>
    /\ AnnotAtRest

Render ==
    /\ pc = "render"
    /\ \E f \in Formats :
         /\ args' = [args EXCEPT !.format = f]
         /\ lines' = formatter(f, results)
    /\ pc' = "rendered"
    /\ UNCHANGED cacheVars
    /\ UNCHANGED <<outFiles, preFiles, store, ioLog, printed, exitCode, errKind, results>>
    /\ UNCHANGED annotVars

RenderNext == Render

SpecRender == RenderInit /\ [][RenderNext]_vars

\* the lines of kind k, in order
OfKind(ls, k) == SelectSeq(ls, LAMBDA l : l.kind = k)

LinkOf(r) == MarkdownEntry(r)[1]

\* the heading above position i
HeadingAbove(ls, i) ==
    LET hs == {j \in 1..i : ls[j].kind = "heading"}
    IN  IF hs = {} THEN -1 ELSE ls[CHOOSE j \in hs : \A k \in hs : k <= j].date

\* C6: for records in any order format_results_markdown emits one heading
\* per distinct date, headings ascending, every record's link line once
\* (as often as the record occurs), under the heading of its date.
C6_MarkdownGrouping ==
    (pc = "rendered" /\ args.format = "markdown") =>
        LET hs == OfKind(lines, "heading")
            ls == OfKind(lines, "link")
        IN  /\ {hs[i].date : i \in 1..Len(hs)} = {get_date(results[i]) : i \in 1..Len(results)}
            /\ \A i, j \in 1..Len(hs) : i < j => hs[i].date < hs[j].date
            /\ Len(ls) = Len(results)
            /\ \A i \in 1..Len(results) :
                   Cardinality({j \in 1..Len(ls) : ls[j] = LinkOf(results[i])})
                   = Cardinality({j \in 1..Len(results) : LinkOf(results[j]) = LinkOf(results[i])})
            /\ \A i \in 1..Len(results) :
                   \E j \in 1..Len(lines) :
                       /\ lines[j] = LinkOf(results[i])
                       /\ HeadingAbove(lines, j) = get_date(results[i])

-----------------------------------------------------------------------------
(* The run of main as a record of the variables it changes, so that each   *)
(* function of the program is an operator from run state to run state.     *)

Cur ==
    [pc |-> pc, cacheFile |-> cacheFile, table |-> table, outFiles |-> outFiles,
     ioLog |-> ioLog, printed |-> printed, exitCode |-> exitCode, errKind |-> errKind,
     results |-> results, lines |-> lines, idx |-> idx, inp |-> inp,
     n_lines |-> n_lines, prompts |-> prompts, entryResults |-> entryResults]

Becomes(st) ==
    /\ pc' = st.pc
    /\ cacheFile' = st.cacheFile
    /\ table' = st.table
    /\ outFiles' = st.outFiles
    /\ ioLog' = st.ioLog
    /\ printed' = st.printed
    /\ exitCode' = st.exitCode
    /\ errKind' = st.errKind
    /\ results' = st.results
    /\ lines' = st.lines
    /\ idx' = st.idx
    /\ inp' = st.inp
    /\ n_lines' = st.n_lines
    /\ prompts' = st.prompts
    /\ entryResults' = st.entryResults

\* main, lines 388-390: the exception is reported and main returns 1
Caught(st, kind) == [st EXCEPT !.pc = "exited", !.exitCode = 1, !.errKind = kind]

\* output paths
Exts == {".txt", ".md", ".json", ".csv"}
Path(stem, ext) == [stem |-> stem, ext |-> ext]
Paths == {Path(stem, ext) : stem \in {"foxtail", "notes"}, ext \in Exts}

\* Path.with_suffix
with_suffix(p, suf) == [p EXCEPT !.ext = suf]

\* main, lines 378-383
suffix(format) ==
    CASE format = "markdown" -> ".md"
      [] format = "table"    -> ".txt"
      [] format = "json"     -> ".json"
      [] format = "csv"      -> ".csv"

\* main, line 373: Path(args.output or "./foxtail.txt")
OutputPath(a) == IF a.output = None THEN Path("foxtail", ".txt") ELSE a.output[1]

\* foxtail, lines 215-223, then main, lines 376-387: format, write, return 0
WriteOutput(st, a) ==
    LET lns == formatter(a.format, st.results)
        file == with_suffix(OutputPath(a), suffix(a.format))
    IN  [st EXCEPT !.lines = lns,
                   !.outFiles = [@ EXCEPT ![file] = Some(lns)],
                   !.exitCode = 0,
                   !.pc = "exited"]

-----------------------------------------------------------------------------
(* input_summaries and multiline_input *)

\* multiline_input("> ", 2)
MaxReturns == 2

\* "\n".join(inp).strip()
Summary(ls) == Strip(Join(ls))

\* input_summaries, lines 231-239: the head of the loop for record i, up to
\* the first input() of its prompt; past the last record the function
\* returns and foxtail and main run on
PromptRecord(st, a, i) ==
    IF i > Len(st.results) THEN WriteOutput(st, a)
    ELSE IF InputCache_get(st.table, st.results[i].url, <<>>).err # "none"
         THEN Caught(st, InputCache_get(st.table, st.results[i].url, <<>>).err)
         ELSE [st EXCEPT !.pc = "reading", !.idx = i, !.inp = <<>>, !.n_lines = 0]

\* input_summaries, lines 227-230, then the loop's first turn
input_summaries(st, a, t) ==
    LET r == InputCache_init(st.cacheFile, st.table, t)
    IN  IF r.err # "none" THEN Caught([st EXCEPT !.entryResults = st.results], r.err)
        ELSE PromptRecord([st EXCEPT !.cacheFile = r.val.file,
                                     !.table = r.val.table,
                                     !.entryResults = st.results], a, 1)

\* multiline_input, lines 253-260: the counter after reading line x
CountReturns(ls, n, x) ==
    IF Len(ls) = 0 THEN (IF x = <<>> THEN 1 ELSE 0)
    ELSE (IF x = <<>> THEN n + 1 ELSE n)

\* input() returns line x to the running multiline_input; when that ends the
\* prompt: lines 242 and 246-247, and the loop's next turn
input_line(st, a, x, t) ==
    LET ls == Append(st.inp, x)
        n == CountReturns(st.inp, st.n_lines, x)
    IN  IF n < MaxReturns THEN [st EXCEPT !.inp = ls, !.n_lines = n]
        ELSE LET done == [st EXCEPT !.inp = ls, !.n_lines = n,
                                    !.prompts = Append(@, ls)]
                 url == st.results[st.idx].url
                 w == InputCache_setitem(st.table, url, Summary(ls), t)
             IN  IF w.err # "none" THEN Caught(done, w.err)
                 ELSE PromptRecord([done EXCEPT !.table = w.val,
                                                !.results[st.idx].summary = Summary(ls)],
                                   a, st.idx + 1)

\* input() raises EOFError: lines 243-244 and 248-249; foxtail and main run on
input_eof(st, a) == WriteOutput(st, a)

\* what the user may type on one line
Lines == {<<>>, <<"a">>, <<QUOTE>>}

ReadLine ==
    /\ pc = "reading"
    /\ Len(inp) < MaxLines
    /\ \E x \in Lines : Becomes(input_line(Cur, args, x, now))
    /\ UNCHANGED <<now, pending, ret, lastSet, swept, openedAt, args, preFiles, store>>

ReadEOF ==
    /\ pc = "reading"
    /\ Becomes(input_eof(Cur, args))
    /\ UNCHANGED <<now, pending, ret, lastSet, swept, openedAt, args, preFiles, store>>

-----------------------------------------------------------------------------
(* SpecAnnotate: foxtail from its call of input_summaries on, for any list  *)
(* of records the query may have returned and any input stream.             *)

AnnotArgs == [NoArgs EXCEPT !.interactive = TRUE]

\* what query_database returns: Result(*row), the summary left empty
AnnotRecords == {Result(u, <<"t">>, t, <<>>) : u \in Urls, t \in 0..1}

AnnotateInit ==
    /\ pc = "annotate"
    /\ now = Retention
    /\ cacheFile \in {Absent, "ready"}
    /\ table \in (IF cacheFile = Absent THEN {<<>>} ELSE SeqsUpTo(StoredRows, 1))
    /\ CacheAtRest
    /\ args = AnnotArgs
    /\ outFiles = [p \in Paths |-> None]
    /\ preFiles = outFiles
    /\ store = None
    /\ ioLog = {"locate", "copy", "query"}
    /\ printed = <<>>
    /\ exitCode = 0
    /\ errKind = "none"
    /\ results \in SeqsUpTo(AnnotRecords, MaxRecords)
    /\ lines = <<>>
    /\ AnnotAtRest

AnnotateStart ==
    /\ pc = "annotate"
    /\ Becomes(input_summaries(Cur, args, now))
    /\ UNCHANGED <<now, pending, ret, lastSet, swept, openedAt, args, preFiles, store>>

AnnotateNext ==
    \/ AnnotateStart
    \/ ReadLine
    \/ ReadEOF

SpecAnnotate == AnnotateInit /\ [][AnnotateNext]_vars

\* the summary the j-th completed prompt returned
Entered(j) == Summary(prompts[j])

\* the last completed prompt for the URL of record j
LastPromptFor(j) ==
    CHOOSE k \in 1..Len(prompts) :
        /\ results[k].url = results[j].url
        /\ \A m \in 1..Len(prompts) : results[m].url = results[j].url => m <= k

\* C2: every record whose prompt completed has its summary in the cache
\* under its URL from then on: while the next record is prompted and when
\* the annotator has returned, get(url) is the summary last entered for it.
C2_EnteredSummariesPersisted ==
    pc \in {"reading", "exited"} =>
        \A j \in 1..Len(prompts) :
            /\ InputCache_getitem(table, results[j].url).err = "none"
            /\ InputCache_getitem(table, results[j].url).val = Entered(LastPromptFor(j))

\* C3: whenever end-of-input arrives, input_summaries returns as many
\* records as it was given, with url, title and time as given; the records of
\* the completed prompts carry the summaries entered, the others the summary
\* they came with; no error is raised.
C3_AnnotatorOutputShape ==
    pc = "exited" =>
        /\ errKind = "none"
        /\ Len(results) = Len(entryResults)
        /\ \A i \in 1..Len(results) :
               /\ results[i].url = entryResults[i].url
               /\ results[i].title = entryResults[i].title
               /\ results[i].time = entryResults[i].time
               /\ results[i].summary =
                      IF i <= Len(prompts) THEN Entered(i) ELSE entryResults[i].summary

\* whether lines i and i+1 of ls are both empty
TwoEmptyAt(ls, i) == ls[i] = <<>> /\ ls[i + 1] = <<>>

\* C4: multiline_input returns exactly when the two lines read last are both
\* empty: a prompt that returned ends in two empty lines and has no two
\* consecutive empty lines before, and a prompt still reading has none.
C4_TwoConsecutiveEmptyLines ==
    /\ \A j \in 1..Len(prompts) :
           /\ Len(prompts[j]) >= 2
           /\ TwoEmptyAt(prompts[j], Len(prompts[j]) - 1)
           /\ \A i \in 1..(Len(prompts[j]) - 2) : ~TwoEmptyAt(prompts[j], i)
    /\ pc = "reading" => \A i \in 1..(Len(inp) - 1) : ~TwoEmptyAt(inp, i)

-----------------------------------------------------------------------------
(* The query window: ISO-8601 texts, compared as foxtail compares them and  *)
(* parsed as datetime.fromisoformat parses them.  All texts share the date  *)
(* part, which is left out: "HH[:MM](+|-)HH:MM".                            *)

\* ord(c) for the characters of these texts
Ord(c) ==
    CASE c = "+" -> 43
      [] c = "-" -> 45
      [] c = "0" -> 48
      [] c = "1" -> 49
      [] c = "2" -> 50
      [] c = "3" -> 51
      [] c = ":" -> 58

Digit(c) == Ord(c) - Ord("0")

\* Python's str.__lt__: lexicographic by code point, a proper prefix is less
RECURSIVE StrLess(_, _)
StrLess(x, y) ==
    IF Len(y) = 0 THEN FALSE
    ELSE IF Len(x) = 0 THEN TRUE
    ELSE IF Ord(x[1]) # Ord(y[1]) THEN Ord(x[1]) < Ord(y[1])
    ELSE StrLess(Tail(x), Tail(y))

\* datetime.fromisoformat(text).timestamp(), in hours: local time minus offset
Instant(text) ==
    LET hh == Digit(text[1]) * 10 + Digit(text[2])
        zone == IF text[3] = ":" THEN SubSeq(text, 6, Len(text)) ELSE SubSeq(text, 3, Len(text))
        off == Digit(zone[2]) * 10 + Digit(zone[3])
    IN  IF zone[1] = "+" THEN hh - off ELSE hh + off

\* hours of the day the texts range over: 01..MaxHour
MaxHour == 2

HourDigit(h) == CASE h = 0 -> "0" [] h = 1 -> "1" [] h = 2 -> "2" [] h = 3 -> "3"

\* the text of hour h, with or without minutes, at offset +01:00 or -01:00
IsoText(h, withMinutes, sign) ==
    <<"0", HourDigit(h)>> \o (IF withMinutes THEN <<":", "0", "0">> ELSE <<>>)
    \o <<sign, "0", "1", ":", "0", "0">>

IsoTexts == {IsoText(h, m, sg) : h \in 1..MaxHour, m \in BOOLEAN, sg \in {"+", "-"}}

-----------------------------------------------------------------------------
(* foxtail and main.  The interpreter is taken to pass check_python_version *)
(* and the command line to parse.                                           *)
(*   pc = "idle"     main has not been called                               *)
(*        "reading"  input_summaries waits in input()                       *)
(*        "exited"   main returned exitCode                                 *)

VERSION == "3.0.0"

\* permutations of a sequence: the orders a query without ORDER BY may use
Orders(rows) ==
    {[i \in 1..Len(rows) |-> rows[f[i]]] :
        f \in {g \in [1..Len(rows) -> 1..Len(rows)] :
                  \A i, j \in 1..Len(rows) : g[i] = g[j] => i = j}}

\* query_database: the bookmarks strictly inside the window
InWindow(rows, after, before) ==
    SelectSeq(rows, LAMBDA r : r.time > Instant(after) /\ r.time < Instant(before))

\* foxtail, lines 194-213, after the output path passed main's check; res is
\* the list query_database returns
foxtail(st, a, db, res, t) ==
    IF a.version THEN Caught([st EXCEPT !.printed = Append(@, VERSION)], "TypeError")
    ELSE IF StrLess(a.before, a.after) THEN Caught(st, "ValueError")
    ELSE IF db = None THEN Caught([st EXCEPT !.ioLog = {"locate"}], "FileNotFoundError")
    ELSE LET queried == [st EXCEPT !.ioLog = {"locate", "copy", "query"}, !.results = res]
         IN  IF a.interactive THEN input_summaries(queried, a, t)
             ELSE WriteOutput(queried, a)

\* main, lines 369-376
main(st, a, db, res, t) ==
    IF st.outFiles[OutputPath(a)] # None /\ ~a.overwrite
    THEN Caught(st, "FileExistsError")
    ELSE foxtail(st, a, db, res, t)

\* what parse() may return
Outputs == {None, Some(Path("notes", ".md"))}

Args ==
    [version : BOOLEAN, after : IsoTexts, before : IsoTexts, output : Outputs,
     format : Formats, interactive : BOOLEAN, overwrite : BOOLEAN]

\* files of the user's that may be there before the run
UserFile == <<Line("user", 0, <<>>)>>
MayExist == {Path("foxtail", ".txt"), Path("foxtail", ".md"), Path("notes", ".md")}

\* bookmarks the history store may hold
Bookmarks == {Result(UrlU, <<"[", "t", "]">>, t, <<>>) : t \in 1..2}

Init ==
    /\ pc = "idle"
    /\ now = Retention
    /\ cacheFile \in {Absent, "ready"}
    /\ table = <<>>
    /\ CacheAtRest
    /\ args = NoArgs
    /\ \E present \in SUBSET MayExist :
           outFiles = [p \in Paths |-> IF p \in present THEN Some(UserFile) ELSE None]
    /\ preFiles = outFiles
    /\ store \in {None} \cup {Some(rows) : rows \in SeqsUpTo(Bookmarks, 1)}
    /\ ioLog = {}
    /\ printed = <<>>
    /\ exitCode = 0
    /\ errKind = "none"
    /\ results = <<>>
    /\ lines = <<>>
    /\ AnnotAtRest

\* main() is run with some command line
MainStart ==
    /\ pc = "idle"
    /\ \E a \in Args :
         /\ args' = a
         /\ \E res \in (IF store = None THEN {<<>>}
                        ELSE Orders(InWindow(store[1], a.after, a.before))) :
              Becomes(main(Cur, a, store, res, now))
    /\ UNCHANGED <<now, pending, ret, lastSet, swept, openedAt, preFiles, store>>

Next ==
    \/ MainStart
    \/ ReadLine
    \/ ReadEOF

Spec == Init /\ [][Next]_vars

\* the file main writes: the output path with the format's suffix
Written(a) == with_suffix(OutputPath(a), suffix(a.format))

\* C7: a window whose "after" denotes a later instant than its "before" is
\* rejected with the validation error before the history store is touched,
\* and no window with after <= before is rejected.
C7_WindowValidatedByInstant ==
    (pc # "idle" /\ ~args.version /\ errKind # "FileExistsError") =>
        /\ Instant(args.after) > Instant(args.before) =>
               (errKind = "ValueError" /\ ioLog = {})
        /\ Instant(args.after) <= Instant(args.before) => errKind # "ValueError"

\* C8: without the overwrite flag no file that existed before the run is
\* changed; the run fails with the file-exists error (status not 0) when the
\* file it would write exists, and only then.
C8_NoSilentOverwrite ==
    (pc = "exited" /\ ~args.overwrite /\ ~args.version) =>
        /\ \A p \in Paths : preFiles[p] # None => outFiles[p] = preFiles[p]
        /\ preFiles[Written(args)] # None => (errKind = "FileExistsError" /\ exitCode # 0)
        /\ errKind = "FileExistsError" => preFiles[Written(args)] # None

\* C9: with the version flag main prints the version, reports no error,
\* returns 0, touches neither the history store nor any file, whether or not
\* the output path exists.
C9_VersionFlag ==
    (pc = "exited" /\ args.version) =>
        /\ printed = <<VERSION>>
        /\ errKind = "none"
        /\ exitCode = 0
        /\ ioLog = {}
        /\ outFiles = preFiles

=============================================================================
